---- MODULE Spec2Model ----
(***************************************************************************)
(* The two extraction scripts of tools/: make-symbol-map.py (the           *)
(* symbol/LaTeX extractor) and make-shorthand-map.py (the shorthand        *)
(* extractor).  A run is one invocation of one script on one page.         *)
(*                                                                         *)
(* A string is a sequence of one-character strings.  A page is the         *)
(* sequence of its <ul class="symbol-grid"> elements in document order; a  *)
(* list is the sequence of the <li> elements below it in document order,   *)
(* each with its attributes and whether it is nested deeper than a direct  *)
(* child (an <li> of a sub-list of one of the list's items).  Attribute    *)
(* values are the values BeautifulSoup hands to the script.                *)
(***************************************************************************)
EXTENDS Integers, Sequences, FiniteSets, TLC

VARIABLES
    prog,               \* which script runs: "symbol" or "shorthand"
    page,               \* the fetched document: its symbol-grid lists
    pc,                 \* position of the script
    err,                \* the exception that ended the run, "none" otherwise
    li_list,            \* the script's li_list
    i,                  \* index in li_list of the item the for loop reads next
    symbol_map,         \* the dict, as its entries in insertion order
    sorted_symbol_map,  \* the list of (key, value) pairs, once sorted
    j,                  \* index in sorted_symbol_map of the pair printed next
    out                 \* standard output: the lines printed so far

vars == <<prog, page, pc, err, li_list, i, symbol_map, sorted_symbol_map, j, out>>

----------------------------------------------------------------------------
(* Bounds of the model. *)

\* most <li> elements below one symbol-grid list
MaxItems == 3

\* most symbol-grid lists on a page
MaxLists == 3

----------------------------------------------------------------------------
(* Strings. *)

\* the printable ASCII characters, Ascii[k] having code point k + 31 (the grave
\* accent, which no value of the model holds, by name)
Ascii ==
    << " ", "!", "\"", "#", "$", "%", "&", "'", "(", ")", "*", "+",
       ",", "-", ".", "/", "0", "1", "2", "3", "4", "5", "6", "7",
       "8", "9", ":", ";", "<", "=", ">", "?", "@", "A", "B", "C",
       "D", "E", "F", "G", "H", "I", "J", "K", "L", "M", "N", "O",
       "P", "Q", "R", "S", "T", "U", "V", "W", "X", "Y", "Z", "[",
       "\\", "]", "^", "_", "GRAVE", "a", "b", "c", "d", "e", "f", "g",
       "h", "i", "j", "k", "l", "m", "n", "o", "p", "q", "r", "s",
       "t", "u", "v", "w", "x", "y", "z", "{", "|", "}", "~" >>

Chars == {Ascii[k] : k \in 1..Len(Ascii)}

\* the code point of a character
Ord == [c \in Chars |-> 31 + (CHOOSE k \in 1..Len(Ascii) : Ascii[k] = c)]

\* str.lower on one character: "A".."Z" move to "a".."z"
LowerChar == [c \in Chars |->
    IF Ord[c] >= Ord["A"] /\ Ord[c] <= Ord["Z"]
    THEN Ascii[Ord[c] + (Ord["a"] - Ord["A"]) - 31]
    ELSE c]

\* str.lower
Lower(s) == [k \in 1..Len(s) |-> LowerChar[s[k]]]

\* Python's s < t on strings: by code point, a proper prefix first
RECURSIVE StrLess(_, _)
StrLess(s, t) ==
    IF t = <<>> THEN FALSE
    ELSE IF s = <<>> THEN TRUE
    ELSE IF s[1] # t[1] THEN Ord[s[1]] < Ord[t[1]]
    ELSE StrLess(Tail(s), Tail(t))

\* Python's s[n:]
Slice(s, n) == IF n >= Len(s) THEN <<>> ELSE SubSeq(s, n + 1, Len(s))

\* what stands for an attribute the element does not carry (None): not a
\* string, since "None" is no character
NoAttr == <<"None">>

----------------------------------------------------------------------------
(* The documents a run may fetch. *)

\* <li> elements, as BeautifulSoup presents them: li[name] for each attribute
\* the scripts read, and whether the <li> is nested below another <li> of the list
Li(id, latex, codepoint, shorthand, nested) ==
    [id |-> id, latex |-> latex, codepoint |-> codepoint,
     shorthand |-> shorthand, nested |-> nested]

IdEqual == <<"s", "y", "m", "b", "o", "l", "-", "e", "q", "u", "a", "l">>
IdEquivTriple == <<"s", "y", "m", "b", "o", "l", "-", "e", "q", "u", "i", "v", ".", "t", "r", "i", "p", "l", "e">>
IdArrowR == <<"s", "y", "m", "b", "o", "l", "-", "a", "r", "r", "o", "w", ".", "r">>

LatexEquiv == <<"\\", "e", "q", "u", "i", "v">>
LatexDeltaLower == <<"\\", "d", "e", "l", "t", "a">>
LatexDeltaCap == <<"\\", "D", "e", "l", "t", "a">>
LatexDeltaUpper == <<"\\", "D", "E", "L", "T", "A">>
LatexZeta == <<"\\", "Z", "e", "t", "a">>
LatexNoBackslash == <<"x", "a">>

Codepoint == <<"8", "8", "0", "1">>
CodepointNotInt == <<"x">>

ShorthandArrow == <<"-", ">">>
ShorthandEscaped == <<"&", "l", "t", ";", "-", "&", "g", "t", ";">>

\* the <li> elements a symbol-grid list of the sym page may hold
SymItems ==
    { Li(IdEqual, LatexEquiv, Codepoint, NoAttr, FALSE),
      Li(IdEquivTriple, LatexEquiv, Codepoint, NoAttr, FALSE),
      Li(IdEqual, LatexDeltaLower, Codepoint, NoAttr, FALSE),
      Li(IdEqual, LatexDeltaCap, Codepoint, NoAttr, FALSE),
      Li(IdEqual, LatexDeltaUpper, Codepoint, NoAttr, FALSE),
      Li(IdEqual, LatexZeta, Codepoint, NoAttr, FALSE),
      Li(IdEqual, LatexNoBackslash, Codepoint, NoAttr, FALSE),
      Li(IdEqual, NoAttr, Codepoint, NoAttr, FALSE),
      Li(NoAttr, NoAttr, Codepoint, NoAttr, FALSE),
      Li(IdEqual, LatexZeta, CodepointNotInt, NoAttr, FALSE),
      Li(IdEqual, LatexZeta, NoAttr, NoAttr, TRUE),
      Li(IdEquivTriple, LatexZeta, Codepoint, NoAttr, TRUE) }

\* the <li> elements a symbol-grid list of the symbols page may hold
ShItems ==
    { Li(IdArrowR, NoAttr, NoAttr, ShorthandArrow, FALSE),
      Li(IdEqual, NoAttr, NoAttr, ShorthandEscaped, FALSE),
      Li(NoAttr, NoAttr, NoAttr, ShorthandArrow, FALSE),
      Li(IdArrowR, NoAttr, NoAttr, NoAttr, FALSE),
      Li(IdEquivTriple, NoAttr, NoAttr, ShorthandArrow, TRUE),
      Li(NoAttr, NoAttr, NoAttr, ShorthandEscaped, TRUE) }

\* symbol-grid lists that neither script selects: one well-formed item, or
\* one item without attributes
OtherLists ==
    { << Li(IdArrowR, LatexEquiv, Codepoint, ShorthandArrow, FALSE) >>,
      << Li(NoAttr, NoAttr, NoAttr, NoAttr, FALSE) >> }

\* the sym page: no symbol-grid list, one of up to MaxItems items, or one of
\* the lists no script selects followed by another
SymPage(p) ==
    \/ p = <<>>
    \/ \E n \in 0..MaxItems : \E l \in [1..n -> SymItems] : p = <<l>>
    \/ \E l \in OtherLists : \E o \in OtherLists : p = <<l, o>>

\* the symbols page: up to MaxLists symbol-grid lists, the second of them
\* (the math shorthands) with up to MaxItems items
ShPage(p) ==
    \E n \in 0..MaxLists : \E others \in [(1..n) \ {2} -> OtherLists] :
        \E m \in (IF n < 2 THEN {0} ELSE 0..MaxItems) : \E math \in [1..m -> ShItems] :
            p = [k \in 1..n |-> IF k = 2 THEN math ELSE others[k]]

----------------------------------------------------------------------------
(* make-symbol-map.py *)

\* the length of the "symbol-" prefix that li['id'][7:] drops
PrefixLen == 7

\* find_all('li', recursive=False): the direct children only
DirectChildren(ul) == SelectSeq(ul, LAMBDA li : ~li.nested)

\* Tag.find_all('li'): every <li> below the list, at any depth, in document order
FindAllLi(ul) == ul

IsDigit(c) == Ord[c] >= Ord["0"] /\ Ord[c] <= Ord["9"]

\* whether int(s) returns: an optional sign, then digits (the values of the
\* model hold no blanks and no underscores)
IntParses(s) ==
    LET body == IF s # <<>> /\ s[1] \in {"+", "-"} THEN Tail(s) ELSE s
    IN  body # <<>> /\ \A k \in 1..Len(body) : IsDigit(body[k])

\* key in symbol_map
InMap(map, key) == \E k \in 1..Len(map) : map[k].latex = key

\* the assignment without its guard: a later item replaces the entry
KeepLast(map, latex, typst) ==
    IF ~InMap(map, latex)
    THEN Append(map, [latex |-> latex, typst |-> typst])
    ELSE [k \in 1..Len(map) |->
             IF map[k].latex = latex THEN [latex |-> latex, typst |-> typst] ELSE map[k]]

\* lines 27-28: symbol_map[latex] = typst unless the key is there already
KeepFirst(map, latex, typst) ==
    IF ~InMap(map, latex)
    THEN Append(map, [latex |-> latex, typst |-> typst])
    ELSE map

\* symbol_map[key]
Lookup(map, key) == map[CHOOSE k \in 1..Len(map) : map[k].latex = key].typst

\* list(symbol_map.keys()): the keys in insertion order
Keys(map) == [k \in 1..Len(map) |-> map[k].latex]

\* the step of a sort that is not stable: x goes before the elements whose key
\* equals its own
InsertBeforeEqual(s, x) ==
    LET p == Cardinality({k \in 1..Len(s) : StrLess(Lower(s[k]), Lower(x))})
    IN  SubSeq(s, 1, p) \o <<x>> \o SubSeq(s, p + 1, Len(s))

\* one step of the stable sort: x goes after every element whose key is not
\* greater than its own
InsertByLower(s, x) ==
    LET p == Cardinality({k \in 1..Len(s) : ~StrLess(Lower(x), Lower(s[k]))})
    IN  SubSeq(s, 1, p) \o <<x>> \o SubSeq(s, p + 1, Len(s))

\* sorted(keys) without key=str.lower: ascending by code point
RECURSIVE SortedByCodepoint(_)
SortedByCodepoint(keys) ==
    IF keys = <<>> THEN <<>>
    ELSE LET front == SortedByCodepoint(SubSeq(keys, 1, Len(keys) - 1))
             x == keys[Len(keys)]
             p == Cardinality({k \in 1..Len(front) : ~StrLess(x, front[k])})
         IN  SubSeq(front, 1, p) \o <<x>> \o SubSeq(front, p + 1, Len(front))

\* sorted(keys, key=str.lower): stable, ascending by the lowercased key
RECURSIVE SortedByLower(_)
SortedByLower(keys) ==
    IF keys = <<>> THEN <<>>
    ELSE InsertByLower(SortedByLower(SubSeq(keys, 1, Len(keys) - 1)), keys[Len(keys)])

\* the line with {latex} in place of {latex[1:]}
FormatKeepsBackslash(latex, typst) ==
    <<" ", " ", " ", " ", "[", "'">> \o latex \o <<"'", ",", " ", "'">>
        \o typst \o <<"'", "]", ",">>

\* f"    ['{latex[1:]}', '{typst}'],"
FormatSymbolLine(latex, typst) ==
    <<" ", " ", " ", " ", "[", "'">> \o Slice(latex, 1) \o <<"'", ",", " ", "'">>
        \o typst \o <<"'", "]", ",">>

\* lines 7-9: urlopen and read; the fetch fails or returns the page
SymFetch ==
    /\ prog = "symbol" /\ pc = "fetch"
    /\ \/ pc' = "find" /\ err' = err
       \/ pc' = "failed" /\ err' = "URLError"
    /\ UNCHANGED <<prog, page, li_list, i, symbol_map, sorted_symbol_map, j, out>>

\* lines 13-14: soup.find is None without a symbol-grid list, and
\* None.find_all raises
SymFind ==
    /\ prog = "symbol" /\ pc = "find"
    /\ IF page = <<>>
       THEN pc' = "failed" /\ err' = "AttributeError" /\ UNCHANGED <<li_list, i>>
       ELSE pc' = "scan" /\ err' = err /\ li_list' = FindAllLi(page[1]) /\ i' = 1
    /\ UNCHANGED <<prog, page, symbol_map, sorted_symbol_map, j, out>>

\* the loop with the print of the shorthand script in it: an entry's line is
\* printed as the entry is made
SymScanItemPrinting ==
    /\ prog = "symbol" /\ pc = "scan" /\ i <= Len(li_list)
    /\ LET li == li_list[i]
           latex == li.latex
       IN  IF li.id = NoAttr \/ li.codepoint = NoAttr
           THEN pc' = "failed" /\ err' = "KeyError" /\ UNCHANGED <<i, symbol_map, out>>
           ELSE IF ~IntParses(li.codepoint)
           THEN pc' = "failed" /\ err' = "ValueError" /\ UNCHANGED <<i, symbol_map, out>>
           ELSE /\ symbol_map' =
                      IF latex # NoAttr
                      THEN KeepFirst(symbol_map, latex, Slice(li.id, PrefixLen))
                      ELSE symbol_map
                /\ out' = IF latex # NoAttr /\ ~InMap(symbol_map, latex)
                          THEN Append(out, FormatSymbolLine(latex, Slice(li.id, PrefixLen)))
                          ELSE out
                /\ i' = i + 1
                /\ UNCHANGED <<pc, err>>
    /\ UNCHANGED <<prog, page, li_list, sorted_symbol_map, j>>

\* lines 15-28: one pass of the for loop over li_list
SymScanItem ==
    /\ prog = "symbol" /\ pc = "scan" /\ i <= Len(li_list)
    /\ LET li == li_list[i]
           latex == li.latex
       IN  IF li.id = NoAttr \/ li.codepoint = NoAttr
           THEN pc' = "failed" /\ err' = "KeyError" /\ UNCHANGED <<i, symbol_map>>
           ELSE IF ~IntParses(li.codepoint)
           THEN pc' = "failed" /\ err' = "ValueError" /\ UNCHANGED <<i, symbol_map>>
           ELSE /\ symbol_map' =
                      IF latex # NoAttr
                      THEN KeepFirst(symbol_map, latex, Slice(li.id, PrefixLen))
                      ELSE symbol_map
                /\ i' = i + 1
                /\ UNCHANGED <<pc, err>>
    /\ UNCHANGED <<prog, page, li_list, sorted_symbol_map, j, out>>

\* lines 31-32: the loop is over; sort the keys and pair them with their values
SymSort ==
    /\ prog = "symbol" /\ pc = "scan" /\ i > Len(li_list)
    /\ LET sorted_keys == SortedByLower(Keys(symbol_map))
       IN  sorted_symbol_map' =
               [k \in 1..Len(sorted_keys) |->
                   [latex |-> sorted_keys[k], typst |-> Lookup(symbol_map, sorted_keys[k])]]
    /\ j' = 1
    /\ pc' = "print"
    /\ UNCHANGED <<prog, page, err, li_list, i, symbol_map, out>>

\* lines 33-34: one pass of the printing loop
SymPrintLine ==
    /\ prog = "symbol" /\ pc = "print" /\ j <= Len(sorted_symbol_map)
    /\ out' = Append(out, FormatSymbolLine(sorted_symbol_map[j].latex, sorted_symbol_map[j].typst))
    /\ j' = j + 1
    /\ UNCHANGED <<prog, page, pc, err, li_list, i, symbol_map, sorted_symbol_map>>

\* the printing loop is over and the script ends
SymExit ==
    /\ prog = "symbol" /\ pc = "print" /\ j > Len(sorted_symbol_map)
    /\ pc' = "done"
    /\ UNCHANGED <<prog, page, err, li_list, i, symbol_map, sorted_symbol_map, j, out>>

----------------------------------------------------------------------------
(* make-shorthand-map.py *)

\* the character references html.unescape knows, of which the model keeps
\* those of <, > and &, each with and without its semicolon
Html5Names ==
    { <<"g", "t", ";">>, <<"g", "t">>, <<"l", "t", ";">>, <<"l", "t">>,
      <<"a", "m", "p", ";">>, <<"a", "m", "p">> }

Html5(name) ==
    IF name[1] = "g" THEN ">" ELSE IF name[1] = "l" THEN "<" ELSE "&"

\* the characters that end a named reference: [^\t\n\f <&#;]
NameStop == {" ", "<", "&", "#", ";"}

\* the length of the longest run of up to 32 name characters t starts with
NameRun(t) ==
    LET cap == IF Len(t) < 32 THEN Len(t) ELSE 32
        runs == {k \in 0..cap : \A q \in 1..k : t[q] \notin NameStop}
    IN  CHOOSE k \in runs : \A r \in runs : r <= k

\* html._replace_charref for a named reference g (the text after the &): the
\* whole name, else its longest known proper prefix of two characters or more,
\* else the text unchanged
ReplaceCharref(g) ==
    IF g \in Html5Names THEN <<Html5(g)>>
    ELSE LET known == {x \in 2..(Len(g) - 1) : SubSeq(g, 1, x) \in Html5Names}
         IN  IF known = {} THEN <<"&">> \o g
             ELSE LET x == CHOOSE y \in known : \A z \in known : z <= y
                  IN  <<Html5(SubSeq(g, 1, x))>> \o Slice(g, x)

\* html.unescape: every &name or &name; is replaced, left to right (the values
\* of the model hold no numeric reference)
RECURSIVE Unescape(_)
Unescape(s) ==
    IF s = <<>> THEN <<>>
    ELSE IF s[1] # "&" THEN <<s[1]>> \o Unescape(Tail(s))
    ELSE LET rest == Tail(s)
             n == NameRun(rest)
             m == IF n < Len(rest) /\ rest[n + 1] = ";" THEN n + 1 ELSE n
         IN  IF n = 0 THEN <<"&">> \o Unescape(rest)
             ELSE ReplaceCharref(SubSeq(rest, 1, m)) \o Unescape(Slice(rest, m))

\* ul_list[0]: the first symbol-grid list of the page
FirstList(ul_list) == ul_list[1]

\* ul_list[1]: the second symbol-grid list of the page
SecondList(ul_list) == ul_list[2]

\* f"['{typst}', '{shorthand}'],"
FormatShorthandLine(typst, shorthand) ==
    <<"[", "'">> \o typst \o <<"'", ",", " ", "'">> \o shorthand \o <<"'", "]", ",">>

\* lines 10-12: urlopen and read; the fetch fails or returns the page
ShFetch ==
    /\ prog = "shorthand" /\ pc = "fetch"
    /\ \/ pc' = "find" /\ err' = err
       \/ pc' = "failed" /\ err' = "URLError"
    /\ UNCHANGED <<prog, page, li_list, i, symbol_map, sorted_symbol_map, j, out>>

\* the selection that takes a missing second list for an empty one
ShFindLenient ==
    /\ prog = "shorthand" /\ pc = "find"
    /\ pc' = "emit" /\ err' = err /\ i' = 1
    /\ li_list' = IF Len(page) < 2 THEN <<>> ELSE FindAllLi(SecondList(page))
    /\ UNCHANGED <<prog, page, symbol_map, sorted_symbol_map, j, out>>

\* lines 17-21: ul_list[1] raises when the page has fewer than two lists
ShFind ==
    /\ prog = "shorthand" /\ pc = "find"
    /\ IF Len(page) < 2
       THEN pc' = "failed" /\ err' = "IndexError" /\ UNCHANGED <<li_list, i>>
       ELSE pc' = "emit" /\ err' = err /\ li_list' = FindAllLi(SecondList(page)) /\ i' = 1
    /\ UNCHANGED <<prog, page, symbol_map, sorted_symbol_map, j, out>>

\* the loop of a script that holds its lines back until the loop is over: a
\* failure leaves nothing printed
ShEmitItemBuffered ==
    /\ prog = "shorthand" /\ pc = "emit" /\ i <= Len(li_list)
    /\ LET li == li_list[i]
       IN  IF li.id = NoAttr \/ li.shorthand = NoAttr
           THEN pc' = "failed" /\ err' = "KeyError" /\ out' = <<>> /\ UNCHANGED i
           ELSE /\ out' = Append(out, FormatShorthandLine(Slice(li.id, PrefixLen),
                                                          Unescape(li.shorthand)))
                /\ i' = i + 1
                /\ UNCHANGED <<pc, err>>
    /\ UNCHANGED <<prog, page, li_list, symbol_map, sorted_symbol_map, j>>

\* lines 22-28: one pass of the for loop, which prints the item's line
ShEmitItem ==
    /\ prog = "shorthand" /\ pc = "emit" /\ i <= Len(li_list)
    /\ LET li == li_list[i]
       IN  IF li.id = NoAttr \/ li.shorthand = NoAttr
           THEN pc' = "failed" /\ err' = "KeyError" /\ UNCHANGED <<i, out>>
           ELSE /\ out' = Append(out, FormatShorthandLine(Slice(li.id, PrefixLen),
                                                          Unescape(li.shorthand)))
                /\ i' = i + 1
                /\ UNCHANGED <<pc, err>>
    /\ UNCHANGED <<prog, page, li_list, symbol_map, sorted_symbol_map, j>>

\* the loop is over and the script ends
ShExit ==
    /\ prog = "shorthand" /\ pc = "emit" /\ i > Len(li_list)
    /\ pc' = "done"
    /\ UNCHANGED <<prog, page, err, li_list, i, symbol_map, sorted_symbol_map, j, out>>

----------------------------------------------------------------------------
(* A run. *)

Init ==
    /\ prog \in {"symbol", "shorthand"}
    /\ IF prog = "symbol" THEN SymPage(page) ELSE ShPage(page)
    /\ pc = "fetch"
    /\ err = "none"
    /\ li_list = <<>>
    /\ i = 0
    /\ symbol_map = <<>>
    /\ sorted_symbol_map = <<>>
    /\ j = 0
    /\ out = <<>>

Next ==
    \/ SymFetch
    \/ SymFind
    \/ SymScanItem
    \/ SymSort
    \/ SymPrintLine
    \/ SymExit
    \/ ShFetch
    \/ ShFind
    \/ ShEmitItem
    \/ ShExit

Spec == Init /\ [][Next]_vars

----------------------------------------------------------------------------
(* Reading the output back. *)

QuotePos(line) == {k \in 1..Len(line) : line[k] = "'"}

\* the position of the n-th quote of a printed line
NthQuote(line, n) ==
    CHOOSE k \in QuotePos(line) : Cardinality({q \in QuotePos(line) : q <= k}) = n

\* the text between the first two quotes of a printed line
PrintedFirst(line) == SubSeq(line, NthQuote(line, 1) + 1, NthQuote(line, 2) - 1)

\* the text between the third and the fourth quote of a printed line
PrintedSecond(line) == SubSeq(line, NthQuote(line, 3) + 1, NthQuote(line, 4) - 1)

\* the indices of li_list whose item carries data-latex-name L
ItemsWith(L) == {k \in 1..Len(li_list) : li_list[k].latex = L}

\* the first of them in document order
FirstWith(L) == CHOOSE k \in ItemsWith(L) : \A q \in ItemsWith(L) : k <= q

\* the positions of sorted_symbol_map that hold key L
PairsOf(L) == {k \in 1..Len(sorted_symbol_map) : sorted_symbol_map[k].latex = L}

LeqLower(a, b) == ~StrLess(Lower(b), Lower(a))

----------------------------------------------------------------------------
(* C1 *)

\* C1: in the symbol/LaTeX extractor an entry of the mapping always holds the
\* identifier of the first item in document order that carries its
\* data-latex-name (no later item overwrites it), and in a completed run every
\* data-latex-name carried by more than one item has exactly one printed
\* line, which shows the identifier of the first such item.
C1_DedupFirstWins ==
    prog = "symbol" =>
        /\ \A k \in 1..Len(symbol_map) :
               /\ ItemsWith(symbol_map[k].latex) # {}
               /\ symbol_map[k].typst = Slice(li_list[FirstWith(symbol_map[k].latex)].id, PrefixLen)
               /\ \A q \in 1..Len(symbol_map) : symbol_map[q].latex = symbol_map[k].latex => q = k
        /\ pc = "done" =>
               /\ Len(out) = Len(sorted_symbol_map)
               /\ \A L \in {li_list[k].latex : k \in 1..Len(li_list)} \ {NoAttr} :
                      Cardinality(ItemsWith(L)) > 1 =>
                          /\ Cardinality(PairsOf(L)) = 1
                          /\ \A k \in PairsOf(L) :
                                 /\ PrintedFirst(out[k]) = Slice(L, 1)
                                 /\ PrintedSecond(out[k]) = Slice(li_list[FirstWith(L)].id, PrefixLen)

\* a completed run in which \equiv is carried by symbol-equiv.triple first
\* and by symbol-equal after it
C1_Witness ==
    /\ prog = "symbol" /\ pc = "done"
    /\ Cardinality(ItemsWith(LatexEquiv)) > 1
    /\ li_list[FirstWith(LatexEquiv)].id = IdEquivTriple
    /\ \E k \in ItemsWith(LatexEquiv) : li_list[k].id = IdEqual

----------------------------------------------------------------------------
(* C2 *)

\* C2 as stated: of any two printed lines of the symbol/LaTeX extractor, the
\* name shown on the earlier one is not greater, lowercased, than the name
\* shown on the later one.
C2_PrintedNamesSorted ==
    prog = "symbol" =>
        \A a, b \in 1..Len(out) :
            a < b => LeqLower(PrintedFirst(out[a]), PrintedFirst(out[b]))

\* C2, amended: each printed line shows a data-latex-name without its first
\* character; of any two printed lines the earlier one's whole
\* data-latex-name, first character included, is not greater, lowercased,
\* than the later one's; and the names as printed are in that order too
\* whenever all the names of the mapping begin with the same character up to
\* letter case.
C2_RawNamesSorted ==
    prog = "symbol" =>
        /\ \A a \in 1..Len(out) :
               PrintedFirst(out[a]) = Slice(sorted_symbol_map[a].latex, 1)
        /\ \A a, b \in 1..Len(out) :
               a < b => LeqLower(sorted_symbol_map[a].latex, sorted_symbol_map[b].latex)
        /\ (\A a, b \in 1..Len(sorted_symbol_map) :
                LowerChar[sorted_symbol_map[a].latex[1]] = LowerChar[sorted_symbol_map[b].latex[1]])
           => \A a, b \in 1..Len(out) :
                  a < b => LeqLower(PrintedFirst(out[a]), PrintedFirst(out[b]))

\* a completed run that printed \delta before \Zeta, which come the other way
\* round by code point
C2_Witness ==
    /\ prog = "symbol" /\ pc = "done"
    /\ \E a, b \in 1..Len(out) :
           /\ a < b
           /\ sorted_symbol_map[a].latex = LatexDeltaLower
           /\ sorted_symbol_map[b].latex = LatexZeta

----------------------------------------------------------------------------
(* C7 *)

\* the text ['<name>', '<identifier>'],
Bracketed(name, ident) ==
    <<"[", "'">> \o name \o <<"'", ",", " ", "'">> \o ident \o <<"'", "]", ",">>

FourSpaces == <<" ", " ", " ", " ">>

\* the run on the two items symbol-equal and symbol-equiv.triple, both \equiv
EquivExample ==
    /\ prog = "symbol" /\ pc = "done"
    /\ Len(li_list) = 2
    /\ li_list[1].id = IdEqual /\ li_list[1].latex = LatexEquiv
    /\ li_list[2].id = IdEquivTriple /\ li_list[2].latex = LatexEquiv

----------------------------------------------------------------------------
(* C10 *)

\* the data-latex-names the items carry
NamesOnItems == {li_list[k].latex : k \in 1..Len(li_list)} \ {NoAttr}

\* two names that differ only in letter case
CaseTwins(a, b) == a # b /\ Lower(a) = Lower(b)

\* the position of key L in sorted_symbol_map
PosOf(L) == CHOOSE k \in PairsOf(L) : TRUE

\* both names are entries of the mapping and each has its printed line
BothRetainedAndPrinted(a, b) ==
    /\ InMap(symbol_map, a) /\ InMap(symbol_map, b)
    /\ Len(out) = Len(sorted_symbol_map)
    /\ Cardinality(PairsOf(a)) = 1 /\ Cardinality(PairsOf(b)) = 1
    /\ PrintedFirst(out[PosOf(a)]) = Slice(a, 1)
    /\ PrintedFirst(out[PosOf(b)]) = Slice(b, 1)

\* the two lines come in the order in which the names first occurred
InFirstSeenOrder(a, b) == (PosOf(a) < PosOf(b)) <=> (FirstWith(a) < FirstWith(b))

\* C10 as stated: in a completed run of the symbol/LaTeX extractor two
\* data-latex-names that differ only in letter case are both retained, both
\* printed, adjacent in the output, and in the order of their first
\* occurrence.
C10_CaseTwinsAdjacent ==
    (prog = "symbol" /\ pc = "done") =>
        \A a, b \in NamesOnItems :
            CaseTwins(a, b) =>
                /\ BothRetainedAndPrinted(a, b)
                /\ (PosOf(a) - PosOf(b) = 1 \/ PosOf(b) - PosOf(a) = 1)
                /\ InFirstSeenOrder(a, b)

\* C10, amended: in a completed run of the symbol/LaTeX extractor two
\* data-latex-names that differ only in letter case are both retained, both
\* printed, in the order of their first occurrence, and every line printed
\* between their two lines is that of a name that differs from them only in
\* letter case as well (they are adjacent when no third such name exists).
C10_CaseTwinsContiguous ==
    (prog = "symbol" /\ pc = "done") =>
        \A a, b \in NamesOnItems :
            CaseTwins(a, b) =>
                /\ BothRetainedAndPrinted(a, b)
                /\ \A k \in 1..Len(sorted_symbol_map) :
                       (PosOf(a) < k /\ k < PosOf(b)) =>
                           Lower(sorted_symbol_map[k].latex) = Lower(a)
                /\ (Cardinality({c \in NamesOnItems : Lower(c) = Lower(a)}) = 2
                       => (PosOf(a) - PosOf(b) = 1 \/ PosOf(b) - PosOf(a) = 1))
                /\ InFirstSeenOrder(a, b)

\* a completed run in which \delta first occurs before \Delta, and \Zeta is
\* there to be sorted too
C10_Witness ==
    /\ prog = "symbol" /\ pc = "done"
    /\ ItemsWith(LatexDeltaLower) # {} /\ ItemsWith(LatexDeltaCap) # {}
    /\ ItemsWith(LatexZeta) # {}
    /\ FirstWith(LatexDeltaLower) < FirstWith(LatexDeltaCap)

----------------------------------------------------------------------------
(* C3 *)

\* C3: a completed run of the shorthand extractor has printed exactly one
\* line per <li> of the second symbol-grid list, the k-th line being that of
\* the k-th <li> in document order, whatever the other lists hold and
\* whether or not identifiers or shorthands repeat.
C3_OneLinePerItemInOrder ==
    (prog = "shorthand" /\ pc = "done") =>
        /\ Len(page) >= 2
        /\ Len(out) = Len(page[2])
        /\ \A k \in 1..Len(out) :
               out[k] = Bracketed(Slice(page[2][k].id, PrefixLen), Unescape(page[2][k].shorthand))

\* a completed run over a second list that holds the same item twice and
\* another item after it, on a page of three lists
C3_Witness ==
    /\ prog = "shorthand" /\ pc = "done"
    /\ Len(page) = 3 /\ Len(page[2]) = 3
    /\ page[2][1] = page[2][2] /\ page[2][3] # page[2][1]
    /\ Len(out) = 3

----------------------------------------------------------------------------
(* C4 *)

\* C4: in the symbol/LaTeX extractor an item without data-latex-name is
\* skipped entirely: it makes no entry of the mapping and the run never
\* fails at it, whatever its id and data-codepoint are.
C4_NoNameItemIsInert ==
    prog = "symbol" =>
        /\ \A k \in 1..Len(symbol_map) : symbol_map[k].latex # NoAttr
        /\ (pc = "failed" /\ err \in {"KeyError", "ValueError"}) => li_list[i].latex # NoAttr

----------------------------------------------------------------------------
(* C5 *)

\* C5: the symbol/LaTeX extractor prints nothing before the scan of all items
\* is over; a run that failed has printed no line, and a completed run has
\* printed the line of every entry of the mapping.
C5_AllOrNothing ==
    prog = "symbol" =>
        /\ out # <<>> => (pc \in {"print", "done"} /\ i > Len(li_list) /\ err = "none")
        /\ pc = "failed" => out = <<>>
        /\ pc = "done" =>
               /\ Len(out) = Len(symbol_map)
               /\ \A k \in 1..Len(symbol_map) :
                      \E q \in 1..Len(out) :
                          out[q] = FourSpaces \o Bracketed(Slice(symbol_map[k].latex, 1),
                                                          symbol_map[k].typst)

\* a run that failed at its last item with entries already in the mapping
C5_Witness ==
    /\ prog = "symbol" /\ pc = "failed"
    /\ i = Len(li_list) /\ i >= 2
    /\ symbol_map # <<>>
    /\ out = <<>>

----------------------------------------------------------------------------
(* C6 *)

\* C6 as stated: a run of the shorthand extractor that failed has printed no
\* line.
C6_FailureLeavesNoOutput ==
    (prog = "shorthand" /\ pc = "failed") => out = <<>>

\* C6, amended: a run of the shorthand extractor that failed on the fetch or
\* for want of a second list has printed no line; one that failed at the
\* k-th item, which lacks its id or its data-math-shorthand, has printed
\* exactly the lines of the k-1 items before it; and while the loop runs
\* every item read so far has its line printed already.
C6_FailureKeepsEarlierLines ==
    prog = "shorthand" =>
        /\ pc = "failed" => err \in {"URLError", "IndexError", "KeyError"}
        /\ (pc = "failed" /\ err \in {"URLError", "IndexError"}) => out = <<>>
        /\ (pc = "failed" /\ err = "KeyError") =>
               (li_list[i].id = NoAttr \/ li_list[i].shorthand = NoAttr)
        /\ (pc = "emit" \/ (pc = "failed" /\ err = "KeyError")) =>
               /\ Len(out) = i - 1
               /\ \A k \in 1..(i - 1) :
                      out[k] = Bracketed(Slice(li_list[k].id, PrefixLen),
                                         Unescape(li_list[k].shorthand))

\* a run that failed at its third item
C6_Witness ==
    /\ prog = "shorthand" /\ pc = "failed" /\ err = "KeyError"
    /\ i = 3 /\ Len(out) = 2

----------------------------------------------------------------------------
(* C8 *)

\* the page lacks the list the script selects
ListMissing ==
    \/ prog = "shorthand" /\ Len(page) < 2
    \/ prog = "symbol" /\ Len(page) = 0

\* C8: on a page with fewer than two symbol-grid lists the shorthand
\* extractor, and on a page with none the symbol/LaTeX extractor, never
\* reaches its loop or its end: the run fails, on the fetch or on the
\* selection of the list, with no line printed.
C8_MissingListFails ==
    ListMissing =>
        /\ pc \in {"fetch", "find", "failed"}
        /\ out = <<>>
        /\ pc = "failed" =>
               err \in {"URLError", IF prog = "shorthand" THEN "IndexError" ELSE "AttributeError"}

\* the shorthand extractor failed on a page with one list only
C8_Witness ==
    /\ prog = "shorthand" /\ Len(page) = 1
    /\ pc = "failed" /\ err = "IndexError"

----------------------------------------------------------------------------
(* C9 *)

\* the list the script selects
Selected == IF prog = "symbol" THEN page[1] ELSE page[2]

\* the script has selected its list
ListSelected ==
    \/ pc \in {"scan", "print", "done", "emit"}
    \/ pc = "failed" /\ err \in {"KeyError", "ValueError"}

\* C9 as stated: no <li> nested deeper than a direct child of the selected
\* list is among the items either script processes.
C9_OnlyDirectChildren ==
    \A k \in 1..Len(li_list) : ~li_list[k].nested

\* C9, amended: both scripts process every <li> below the selected list, at
\* any depth, in document order.  A nested <li> is treated as a direct child
\* is: a completed run of the shorthand extractor has printed a line for it,
\* a completed scan of the symbol/LaTeX extractor has an entry for its
\* data-latex-name, and no run completes when it lacks an attribute the
\* script requires.
C9_AllDescendantsProcessed ==
    ListSelected =>
        /\ li_list = Selected
        /\ (prog = "shorthand" /\ pc = "done") =>
               /\ Len(out) = Len(Selected)
               /\ \A k \in 1..Len(Selected) :
                      /\ Selected[k].id # NoAttr /\ Selected[k].shorthand # NoAttr
                      /\ PrintedFirst(out[k]) = Slice(Selected[k].id, PrefixLen)
        /\ (prog = "symbol" /\ pc \in {"print", "done"}) =>
               \A k \in 1..Len(Selected) :
                   /\ Selected[k].id # NoAttr /\ Selected[k].codepoint # NoAttr
                   /\ Selected[k].latex # NoAttr => InMap(symbol_map, Selected[k].latex)

\* a completed run of the symbol/LaTeX extractor whose entry for \Zeta comes
\* from a nested <li>
C9_Witness ==
    /\ prog = "symbol" /\ pc = "done"
    /\ \E k \in 1..Len(li_list) :
           /\ li_list[k].nested
           /\ FirstWith(li_list[k].latex) = k
           /\ InMap(symbol_map, li_list[k].latex)
           /\ Lookup(symbol_map, li_list[k].latex) = Slice(li_list[k].id, PrefixLen)

====
